---- MODULE Spec2Model ----
(***************************************************************************)
(* Model of mcp_chatbot.py (class MCP_ChatBot and main): the bootstrap     *)
(* that connects to the configured MCP servers and fills the registry      *)
(* (sessions, available_tools, available_prompts), the interactive         *)
(* chat_loop, and the tool-use loop of process_query.                      *)
(*                                                                         *)
(* A ClientSession is identified by the position (1, 2, ...) of its server *)
(* in the configuration; None is 0.  Python lists are sequences, the dict  *)
(* self.sessions is a function whose DOMAIN is the set of keys present.    *)
(* The list assistant_content of process_query is a mutable object that    *)
(* the transcript refers to: `heap` holds one such list per round and an   *)
(* assistant message holds the reference, as in the code.                  *)
(***************************************************************************)
EXTENDS Integers, Sequences, FiniteSets, TLC

\* ------------------------------------------------------------------ bounds
MaxServers == 2   \* entries under mcpServers in the configuration
MaxRounds  == 2   \* model-service calls made by one process_query
MaxSegs    == 2   \* content blocks in one model response
MaxRest    == 7   \* characters after the name on a /prompt line

\* ------------------------------------------------------------ input sets
None == 0
NoId == <<0, 0>>

\* what the three listing calls of one backend can return
ToolLists     == {<<>>, <<"a">>, <<"b">>, <<"a", "b">>}
PromptLists   == {<<>>, <<"a">>, <<"p">>}
ResourceLists == {<<>>, <<"papers://folders">>}
\* tool names the model service can ask for
ReqNames == {"a", "b"}
Queries  == {"q"}

Failed      == [ok |-> FALSE, items |-> <<>>]
Listed(l)   == [ok |-> TRUE, items |-> l]
Results(ls) == {Failed} \cup {Listed(l) : l \in ls}

\* One backend as the bootstrap meets it: whether its configuration entry is
\* a mapping with a list of strings under args, how launch and handshake
\* end, and what each listing call returns (Failed: unsupported or raises).
Beh(e, c, t, p, r) ==
    [entry |-> e, conn |-> c, tools |-> t, prompts |-> p, resources |-> r]
Behaviours ==
    {Beh(FALSE, "none", Failed, Failed, Failed),
     Beh(TRUE, "launch_fail", Failed, Failed, Failed),
     Beh(TRUE, "handshake_fail", Failed, Failed, Failed)}
    \cup {Beh(TRUE, "ok", t, p, r) :
            t \in Results(ToolLists), p \in Results(PromptLists),
            r \in Results(ResourceLists)}

Range(s) == {s[i] : i \in DOMAIN s}

VARIABLES
    pc,                \* position of main: start, connecting, returned, chat, query, cleanup, stopped
    config,            \* server_config.json: [file, hasKey, n]
    next,              \* index of the server the loop of connect_to_servers is at
    bootResult,        \* return value of connect_to_servers: "none", "True", "False"
    bootError,         \* except clause connect_to_servers ended in, or "none"
    backend,           \* behaviour of each server attempted so far
    exit_stack,        \* sessions entered into self.exit_stack, in order
    sessions,          \* self.sessions
    available_tools,   \* self.available_tools
    available_prompts, \* self.available_prompts
    qpc,               \* position of process_query
    messages,          \* local messages of process_query
    heap,              \* the assistant_content list of each round
    responses,         \* the model responses of this query, the last one current
    idx,               \* position of the for loop in the current response
    has_tool_use,      \* local has_tool_use
    submitted,         \* the transcript as last passed to messages.create
    log,               \* the line typed, calls made and lines printed while it is processed
    connect_ok,        \* what connect_to_server returned for each server attempted
    line,              \* the /prompt line being processed: [name, rest]
    args               \* the argument dict passed to execute_prompt

bootVars == <<config, next, bootResult, bootError, backend, exit_stack,
              sessions, available_tools, available_prompts, connect_ok>>
lineVars == <<line, args>>
queryVars == <<qpc, messages, heap, responses, idx, has_tool_use, submitted, log>>
vars == <<pc, config, next, bootResult, bootError, backend, exit_stack,
          sessions, available_tools, available_prompts,
          qpc, messages, heap, responses, idx, has_tool_use, submitted, log,
          connect_ok, line, args>>

\* ---------------------------------------------------------------- registry
\* mutant: a key already present keeps its value
DictSetFirstWins(d, k, v) ==
    [x \in DOMAIN d \cup {k} |-> IF x \in DOMAIN d THEN d[x] ELSE v]

\* d[k] = v of a Python dict
DictSet(d, k, v) == [x \in DOMAIN d \cup {k} |-> IF x = k THEN v ELSE d[x]]
\* d.get(k)
DictGet(d, k) == IF k \in DOMAIN d THEN d[k] ELSE None

\* mutant: only the first item of a listing is registered
RegisterFirst(d, names, s) ==
    IF names = <<>> THEN d ELSE DictSet(d, Head(names), s)

\* for x in names: self.sessions[x] = session
RECURSIVE RegisterAll(_, _, _)
RegisterAll(d, names, s) ==
    IF names = <<>> THEN d
    ELSE RegisterAll(DictSet(d, Head(names), s), Tail(names), s)

\* the descriptor appended to available_tools / available_prompts
Descriptor(n) == [name |-> n]
RECURSIVE Descriptors(_)
Descriptors(names) ==
    IF names = <<>> THEN <<>>
    ELSE <<Descriptor(Head(names))>> \o Descriptors(Tail(names))

\* str(resource.uri)
UriStr(u) == u

\* config.get('mcpServers', {}): the number of entries to iterate
ServerCount(c) == IF c.hasKey THEN c.n ELSE 0

\* ------------------------------------------------------- connect_to_server
Registry ==
    [sessions |-> sessions, tools |-> available_tools,
     prompts |-> available_prompts, stack |-> exit_stack]

EmptyRegistry ==
    [sessions |-> [k \in {} |-> None], tools |-> <<>>, prompts |-> <<>>,
     stack |-> <<>>]

\* mutant: the session is not entered into the exit stack
OpenedUnmanaged(reg, b) ==
    [reg EXCEPT !.stack = @ \o << <<"stdio", b>> >>]

\* stdio_client and ClientSession entered into the exit stack (lines 29-35)
Opened(reg, b) ==
    [reg EXCEPT !.stack = @ \o << <<"stdio", b>>, <<"session", b>> >>]

\* lines 39-52
ListTools(reg, b, res) ==
    IF res.ok
    THEN [reg EXCEPT !.sessions = RegisterAll(@, res.items, b),
                     !.tools = @ \o Descriptors(res.items)]
    ELSE reg

\* lines 55-68
ListPrompts(reg, b, res) ==
    IF res.ok /\ res.items # <<>>
    THEN [reg EXCEPT !.sessions = RegisterAll(@, res.items, b),
                     !.prompts = @ \o Descriptors(res.items)]
    ELSE reg

\* lines 71-80
ListResources(reg, b, res) ==
    IF res.ok /\ res.items # <<>>
    THEN [reg EXCEPT !.sessions =
              RegisterAll(@, [i \in DOMAIN res.items |-> UriStr(res.items[i])], b)]
    ELSE reg

\* what connect_to_server returns: True at line 83 once launch and
\* handshake are through, False from the except clause of lines 85-87
ConnectReturn(beh) == beh.conn = "ok"

\* mutant: the three listings share one try block, so the first listing
\* that fails skips the ones after it
ConnectToServerOneTry(reg, b, beh) ==
    IF beh.conn = "launch_fail" THEN reg
    ELSE IF beh.conn = "handshake_fail" THEN Opened(reg, b)
    ELSE IF ~beh.tools.ok THEN Opened(reg, b)
    ELSE IF ~beh.prompts.ok THEN ListTools(Opened(reg, b), b, beh.tools)
    ELSE ListResources(
             ListPrompts(ListTools(Opened(reg, b), b, beh.tools), b, beh.prompts),
             b, beh.resources)

\* the registry after connect_to_server for server b behaving as beh
ConnectToServer(reg, b, beh) ==
    IF beh.conn = "launch_fail" THEN reg
    ELSE IF beh.conn = "handshake_fail" THEN Opened(reg, b)
    ELSE ListResources(
             ListPrompts(ListTools(Opened(reg, b), b, beh.tools), b, beh.prompts),
             b, beh.resources)

\* ------------------------------------------------------ connect_to_servers
\* what opening and parsing the file ends in (lines 93-94, 96, 118-127)
LoadError(c) ==
    CASE c.file = "missing"    -> "FileNotFoundError"
      [] c.file = "malformed"  -> "JSONDecodeError"
      [] c.file = "nonmapping" -> "Exception"
      [] OTHER                 -> "none"

\* mutant: the check for an empty mapping is missing
NoServersNever(c) == FALSE

\* `if not servers: return False` (lines 99-101)
NoServers(c) == ServerCount(c) = 0

\* mutant: a server that does not connect ends the bootstrap
PropagatesOnFailure(beh) == beh.conn # "ok"

\* whether an exception of connect_to_server reaches connect_to_servers:
\* never, `except Exception` returns False and the loop goes on
\* (lines 85-87, 106-109)
Propagates(beh) == FALSE

LoadConfig ==
    /\ pc = "start"
    /\ IF LoadError(config) # "none"
       THEN /\ bootError' = LoadError(config)
            /\ bootResult' = "False"
            /\ pc' = "returned"
            /\ next' = next
       ELSE IF NoServers(config)
       THEN /\ bootResult' = "False"
            /\ pc' = "returned"
            /\ UNCHANGED <<bootError, next>>
       ELSE /\ pc' = "connecting"
            /\ next' = 1
            /\ UNCHANGED <<bootError, bootResult>>
    /\ UNCHANGED <<config, backend, exit_stack, sessions, available_tools,
                   available_prompts, connect_ok>>
    /\ UNCHANGED queryVars
    /\ UNCHANGED lineVars

\* one iteration of the loop of lines 103-109
ConnectNext ==
    /\ pc = "connecting"
    /\ next <= ServerCount(config)
    /\ \E beh \in Behaviours :
         /\ backend' = Append(backend, beh)
         /\ IF ~beh.entry \/ Propagates(beh)
            THEN \* line 105 raises on the entry: except Exception, line 125
                 /\ bootError' = "Exception"
                 /\ bootResult' = "False"
                 /\ pc' = "returned"
                 /\ UNCHANGED <<next, exit_stack, sessions, available_tools,
                                available_prompts, connect_ok>>
            ELSE LET reg == ConnectToServer(Registry, next, beh) IN
                 /\ connect_ok' = Append(connect_ok, ConnectReturn(beh))
                 /\ sessions' = reg.sessions
                 /\ available_tools' = reg.tools
                 /\ available_prompts' = reg.prompts
                 /\ exit_stack' = reg.stack
                 /\ next' = next + 1
                 /\ UNCHANGED <<pc, bootError, bootResult>>
    /\ UNCHANGED config
    /\ UNCHANGED queryVars
    /\ UNCHANGED lineVars

\* lines 111-116
ReturnFromConnect ==
    /\ pc = "connecting"
    /\ next > ServerCount(config)
    /\ bootResult' = "True"
    /\ pc' = "returned"
    /\ UNCHANGED <<config, next, bootError, backend, exit_stack, sessions,
                   available_tools, available_prompts, connect_ok>>
    /\ UNCHANGED queryVars
    /\ UNCHANGED lineVars

\* ------------------------------------------------------------------- main
\* mutant: main ignores the result
EntersChatAlways(result) == TRUE

\* `if not await chatbot.connect_to_servers(): return` (lines 341-343)
EntersChat(result) == result = "True"

MainCheck ==
    /\ pc = "returned"
    /\ pc' = IF EntersChat(bootResult) THEN "chat" ELSE "cleanup"
    /\ UNCHANGED bootVars
    /\ UNCHANGED queryVars
    /\ UNCHANGED lineVars

\* finally: await chatbot.cleanup() (lines 333-334, 357-358)
Cleanup ==
    /\ pc = "cleanup"
    /\ exit_stack' = <<>>
    /\ pc' = "stopped"
    /\ UNCHANGED <<config, next, bootResult, bootError, backend, sessions,
                   available_tools, available_prompts, connect_ok>>
    /\ UNCHANGED queryVars
    /\ UNCHANGED lineVars

\* ---------------------------------------------------------- process_query
\* content blocks; every block has the same fields so that any two compare
Block(t, x, n, i, s) == [type |-> t, text |-> x, name |-> n, id |-> i, by |-> s]
TextBlock(x)         == Block("text", x, "", NoId, None)
ToolUse(n, i)        == Block("tool_use", "", n, i, None)
\* {"type": "tool_result", "tool_use_id": i, "content": result.content};
\* the content is what session s returned for tool n
ToolResult(i, s, n)  == Block("tool_result", "", n, i, s)

\* a response is drawn by shape: "" is a text block, a name a tool_use block;
\* the model service gives every tool_use block an id of its own
SegKinds == {""} \cup ReqNames
Shapes   == UNION {[1..n -> SegKinds] : n \in 0..MaxSegs}
MkResponse(shape, r) ==
    [i \in DOMAIN shape |->
        IF shape[i] = "" THEN TextBlock("t") ELSE ToolUse(shape[i], <<r, i>>)]

\* messages: ref > 0 is a reference to the list heap[ref]
UserMsg(q)       == [role |-> "user", ref |-> 0, content |-> <<TextBlock(q)>>]
AssistantMsg(r)  == [role |-> "assistant", ref |-> r, content |-> <<>>]
ToolResultMsg(i, s, n) ==
    [role |-> "user", ref |-> 0, content |-> <<ToolResult(i, s, n)>>]

\* the transcript as the model service reads it: references followed
Deref(m, h) ==
    [role |-> m.role, content |-> IF m.ref > 0 THEN h[m.ref] ELSE m.content]
Transcript == [i \in DOMAIN messages |-> Deref(messages[i], heap)]

Event(e, r, i, n, id, s) ==
    [ev |-> e, round |-> r, idx |-> i, name |-> n, id |-> id, session |-> s]

round == Len(responses)
cur   == responses[round]

\* self.sessions.get(content.name) (line 153)
Lookup(n) == DictGet(sessions, n)

\* mutant: the id of the first block of the response is used
ResultIdOfFirst(blk) == <<blk.id[1], 1>>

\* "tool_use_id": content.id (line 164)
ResultId(blk) == blk.id

\* mutants: the while loop never ends; it ends after every response
AfterForNeverDone(used) == "AWAITING_MODEL"
AfterForAlwaysDone(used) == "DONE"

\* the for loop is over: `if not has_tool_use: break` (lines 171-172)
AfterFor(used) == IF used THEN "AWAITING_MODEL" ELSE "DONE"

\* mutant: the transcript is pruned to the query and the latest message
AppendAssistantPruned(ms, r) == <<ms[1], AssistantMsg(r)>>

\* messages.append({'role':'assistant', 'content':assistant_content}) (line 150)
AppendAssistant(ms, r) == Append(ms, AssistantMsg(r))

\* mutant: not-found ends process_query
AfterNotFoundReturn == "DONE"

\* `break` out of the for loop with has_tool_use set (lines 154-156, 171)
AfterNotFound == AfterFor(TRUE)

\* line 130
StartQuery(q) ==
    /\ qpc' = "AWAITING_MODEL"
    /\ messages' = <<UserMsg(q)>>
    /\ heap' = <<>>
    /\ responses' = <<>>
    /\ idx' = 0
    /\ has_tool_use' = FALSE
    /\ submitted' = <<>>
    /\ log' = <<Event("query", 0, 0, q, NoId, None)>>

\* self.anthropic.messages.create returns (lines 133-141)
ModelResponds ==
    /\ pc = "query" /\ qpc = "AWAITING_MODEL"
    /\ round < MaxRounds
    /\ \E shape \in Shapes :
         responses' = Append(responses, MkResponse(shape, round + 1))
    /\ submitted' = Transcript
    /\ heap' = Append(heap, <<>>)
    /\ idx' = 1
    /\ has_tool_use' = FALSE
    /\ qpc' = "FOR"
    /\ log' = Append(log, Event("submit", round + 1, 0, "", NoId, None))
    /\ UNCHANGED <<pc, messages>>
    /\ UNCHANGED bootVars
    /\ UNCHANGED lineVars

\* self.anthropic.messages.create raises
ModelRaises ==
    /\ pc = "query" /\ qpc = "AWAITING_MODEL"
    /\ round < MaxRounds
    /\ submitted' = Transcript
    /\ qpc' = "RAISED"
    /\ log' = Append(log, Event("submit", round + 1, 0, "", NoId, None))
    /\ UNCHANGED <<pc, messages, heap, responses, idx, has_tool_use>>
    /\ UNCHANGED bootVars
    /\ UNCHANGED lineVars

\* a text block (lines 144-146)
TextSegment ==
    /\ pc = "query" /\ qpc = "FOR"
    /\ idx <= Len(cur)
    /\ cur[idx].type = "text"
    /\ heap' = [heap EXCEPT ![round] = Append(@, cur[idx])]
    /\ idx' = idx + 1
    /\ UNCHANGED <<pc, qpc, messages, responses, has_tool_use, submitted, log>>
    /\ UNCHANGED bootVars
    /\ UNCHANGED lineVars

\* a tool_use block whose name resolves: up to the await of call_tool
\* (lines 147-158)
ToolUseCall ==
    /\ pc = "query" /\ qpc = "FOR"
    /\ idx <= Len(cur)
    /\ cur[idx].type = "tool_use"
    /\ Lookup(cur[idx].name) # None
    /\ has_tool_use' = TRUE
    /\ heap' = [heap EXCEPT ![round] = Append(@, cur[idx])]
    /\ messages' = AppendAssistant(messages, round)
    /\ log' = Append(log, Event("call_tool", round, idx, cur[idx].name,
                                cur[idx].id, Lookup(cur[idx].name)))
    /\ qpc' = "CALLING"
    /\ UNCHANGED <<pc, responses, idx, submitted>>
    /\ UNCHANGED bootVars
    /\ UNCHANGED lineVars

\* a tool_use block whose name does not resolve: print, break, and the
\* while loop goes on since has_tool_use is set (lines 147-156, 171)
ToolUseNotFound ==
    /\ pc = "query" /\ qpc = "FOR"
    /\ idx <= Len(cur)
    /\ cur[idx].type = "tool_use"
    /\ Lookup(cur[idx].name) = None
    /\ has_tool_use' = TRUE
    /\ heap' = [heap EXCEPT ![round] = Append(@, cur[idx])]
    /\ messages' = AppendAssistant(messages, round)
    /\ log' = Append(log, Event("not_found", round, idx, cur[idx].name,
                                cur[idx].id, None))
    /\ qpc' = AfterNotFound
    /\ UNCHANGED <<pc, responses, idx, submitted>>
    /\ UNCHANGED bootVars
    /\ UNCHANGED lineVars

LastEvent == log[Len(log)]

\* call_tool returns: the result is appended (lines 158-168)
ToolReturns ==
    /\ pc = "query" /\ qpc = "CALLING"
    /\ messages' = Append(messages,
           ToolResultMsg(ResultId(cur[idx]), LastEvent.session, cur[idx].name))
    /\ idx' = idx + 1
    /\ qpc' = "FOR"
    /\ UNCHANGED <<pc, heap, responses, has_tool_use, submitted, log>>
    /\ UNCHANGED bootVars
    /\ UNCHANGED lineVars

\* call_tool raises: the exception leaves process_query
ToolRaises ==
    /\ pc = "query" /\ qpc = "CALLING"
    /\ qpc' = "RAISED"
    /\ UNCHANGED <<pc, messages, heap, responses, idx, has_tool_use, submitted, log>>
    /\ UNCHANGED bootVars
    /\ UNCHANGED lineVars

\* the for loop has run through the response (lines 170-172)
EndFor ==
    /\ pc = "query" /\ qpc = "FOR"
    /\ idx > Len(cur)
    /\ qpc' = AfterFor(has_tool_use)
    /\ UNCHANGED <<pc, messages, heap, responses, idx, has_tool_use, submitted, log>>
    /\ UNCHANGED bootVars
    /\ UNCHANGED lineVars

\* -------------------------------------------------------------- chat_loop
\* an empty line, EOF or an interrupt at the prompt (lines 273-283)
ReadEmpty ==
    /\ pc = "chat"
    /\ UNCHANGED vars

\* what is printed for an exception caught while a line is processed
ErrorEvent(origin) == Event("error", 0, 0, origin, NoId, None)
LineEvent(text)    == Event("line", 0, 0, text, NoId, None)

\* mutant: an error caught while a line is processed ends chat_loop
AfterErrorExit == "cleanup"

\* where chat_loop is after an except clause has printed the error: at
\* the top of `while True`, reading the next line (lines 196-197, 238-239,
\* 327-328)
AfterError == "chat"

\* 'quit' (lines 285-286), then main's finally
ReadQuit ==
    /\ pc = "chat"
    /\ pc' = "cleanup"
    /\ log' = <<LineEvent("quit")>>
    /\ UNCHANGED <<qpc, messages, heap, responses, idx, has_tool_use, submitted>>
    /\ UNCHANGED bootVars
    /\ UNCHANGED lineVars

\* any other line that starts with neither @ nor / (line 325)
ReadQuery ==
    /\ pc = "chat"
    /\ pc' = "query"
    /\ \E q \in Queries : StartQuery(q)
    /\ UNCHANGED bootVars
    /\ UNCHANGED lineVars

\* process_query returns, or its exception reaches an except clause (of
\* chat_loop, lines 327-328, or of execute_prompt, lines 238-239, both
\* print it and the loop goes on); its locals are gone
QueryReturns ==
    /\ pc = "query" /\ qpc \in {"DONE", "RAISED"}
    /\ pc' = IF qpc = "RAISED" THEN AfterError ELSE "chat"
    /\ qpc' = "idle"
    /\ messages' = <<>>
    /\ heap' = <<>>
    /\ responses' = <<>>
    /\ idx' = 0
    /\ has_tool_use' = FALSE
    /\ submitted' = <<>>
    /\ log' = IF qpc = "RAISED" THEN <<ErrorEvent(LastEvent.ev)>> ELSE <<>>
    /\ UNCHANGED bootVars
    /\ UNCHANGED lineVars

\* '/prompts', '/prompt' without a name, or an unknown command: each only
\* prints (lines 300-309, 321-323; list_prompts, lines 199-212)
OtherCommands == {"/prompts", "/prompt", "/other"}
ReadCommand ==
    /\ pc = "chat"
    /\ \E c \in OtherCommands : log' = <<LineEvent(c)>>
    /\ UNCHANGED <<pc, qpc, messages, heap, responses, idx, has_tool_use, submitted>>
    /\ UNCHANGED bootVars
    /\ UNCHANGED lineVars

\* ----------------------------------------------------------- get_resource
\* '@<topic>': the URI chat_loop builds (lines 291-295)
Topics == {"folders", "ai"}
PapersUri(topic) ==
    IF topic = "folders" THEN "papers://folders" ELSE "papers://ai"

\* mutant: every key passes the prefix test
StartsWithAnything(str) == TRUE

\* str.startswith("papers://"), over the strings of the model
StartsWithPapers(str) == str \in {"papers://folders", "papers://ai"}

\* the sessions get_resource may end up with (lines 175-182): the one
\* registered under the URI, else for a papers:// URI the one of the first
\* key of self.sessions with that prefix (dict order is not modelled: any
\* such key), else none
ResourceSessions(d, uri) ==
    IF DictGet(d, uri) # None THEN {DictGet(d, uri)}
    ELSE IF StartsWithPapers(uri)
         THEN {d[k] : k \in {x \in DOMAIN d : StartsWithPapers(x)}}
         ELSE {}

\* mutant: the session found by the fallback is stored under the URI
SessionsCached(d, uri, s) == DictSet(d, uri, s)

\* self.sessions after the lookup of get_resource: lines 175-182 assign the
\* local `session` only
SessionsAfterLookup(d, uri, s) == d

\* '@<topic>' whose URI resolves: up to the await of read_resource
\* (lines 288-296, 174-189)
ReadResource ==
    /\ pc = "chat"
    /\ \E t \in Topics : \E s \in ResourceSessions(sessions, PapersUri(t)) :
         /\ log' = <<Event("read_resource", 0, 0, PapersUri(t), NoId, s)>>
         /\ sessions' = SessionsAfterLookup(sessions, PapersUri(t), s)
    /\ pc' = "resource"
    /\ UNCHANGED <<config, next, bootResult, bootError, backend, exit_stack,
                   available_tools, available_prompts, connect_ok>>
    /\ UNCHANGED <<qpc, messages, heap, responses, idx, has_tool_use, submitted>>
    /\ UNCHANGED lineVars

\* '@<topic>' whose URI does not resolve: print and return (lines 184-186)
ResourceNotFound ==
    /\ pc = "chat"
    /\ \E t \in Topics :
         /\ ResourceSessions(sessions, PapersUri(t)) = {}
         /\ log' = <<Event("resource_not_found", 0, 0, PapersUri(t), NoId, None)>>
    /\ UNCHANGED <<pc, qpc, messages, heap, responses, idx, has_tool_use, submitted>>
    /\ UNCHANGED bootVars
    /\ UNCHANGED lineVars

\* read_resource returns and the content or 'No content available.' is
\* printed (lines 189-195)
ResourceReturns ==
    /\ pc = "resource"
    /\ pc' = "chat"
    /\ log' = <<>>
    /\ UNCHANGED <<qpc, messages, heap, responses, idx, has_tool_use, submitted>>
    /\ UNCHANGED bootVars
    /\ UNCHANGED lineVars

\* read_resource raises (line 189)
ResourceRaises ==
    /\ pc = "resource"
    /\ pc' = "raised"
    /\ UNCHANGED queryVars
    /\ UNCHANGED bootVars
    /\ UNCHANGED lineVars

\* ------------------------------------------------- the /prompt command
\* no /prompt line is being processed
NoLine == [name |-> "", rest |-> <<>>]
NoArgs == [k \in {} |-> <<>>]
LineIdle == line = NoLine /\ args = NoArgs

\* the characters a line is made of, and the texts that may follow the
\* prompt name on a '/prompt <name> ...' line
Chars == {"a", "1", "=", " "}
Texts(n) == UNION {[1..k -> Chars] : k \in 0..n}
Rests == Texts(MaxRest)
\* the texts typed in the runs that go on into get_prompt and process_query
ChatRests == {<<>>, <<"a", "=", "1">>}
PromptNames == {"a", "b"}

\* str.split(): the maximal runs of characters other than whitespace;
\* tok is the run being read at position i
RECURSIVE SplitWs(_, _, _)
SplitWs(str, i, tok) ==
    IF i > Len(str) THEN (IF tok = <<>> THEN <<>> ELSE <<tok>>)
    ELSE IF str[i] = " "
         THEN (IF tok = <<>> THEN <<>> ELSE <<tok>>) \o SplitWs(str, i + 1, <<>>)
         ELSE SplitWs(str, i + 1, Append(tok, str[i]))

\* str.find(c) from position i, 0 when absent
RECURSIVE Find(_, _, _)
Find(str, c, i) ==
    IF i > Len(str) THEN 0
    ELSE IF str[i] = c THEN i ELSE Find(str, c, i + 1)

\* mutant: the token is split at its last '='
RECURSIVE FindLast(_, _, _)
FindLast(str, c, i) ==
    IF i > Len(str) THEN 0
    ELSE IF str[i] = c /\ FindLast(str, c, i + 1) = 0 THEN i
    ELSE FindLast(str, c, i + 1)

\* the position arg.split('=', 1) splits at
SplitAt(arg, c, i) == Find(arg, c, i)

\* the loop of lines 316-319 over parts[2:], d the dict built so far
RECURSIVE ParseArgs(_, _)
ParseArgs(toks, d) ==
    IF toks = <<>> THEN d
    ELSE LET arg == Head(toks)
             at  == SplitAt(arg, "=", 1)
         IN  ParseArgs(Tail(toks),
                 IF at # 0
                 THEN DictSet(d, SubSeq(arg, 1, at - 1), SubSeq(arg, at + 1, Len(arg)))
                 ELSE d)

\* '/prompt <name> <rest>' whose name resolves: the arguments are parsed
\* and execute_prompt goes up to the await of get_prompt (lines 303-320,
\* 214-222)
ReadPromptFrom(rests) ==
    /\ pc = "chat"
    /\ \E n \in PromptNames : \E rest \in rests :
         /\ Lookup(n) # None
         /\ line' = [name |-> n, rest |-> rest]
         /\ args' = ParseArgs(SplitWs(rest, 1, <<>>), NoArgs)
         /\ log' = <<Event("get_prompt", 0, 0, n, NoId, Lookup(n))>>
    /\ pc' = "prompt"
    /\ UNCHANGED <<qpc, messages, heap, responses, idx, has_tool_use, submitted>>
    /\ UNCHANGED bootVars

ReadPrompt     == ReadPromptFrom(ChatRests)
ReadPromptLine == ReadPromptFrom(Rests)

\* '/prompt <name> ...' whose name does not resolve: print and return
\* (lines 216-219)
PromptNotFound ==
    /\ pc = "chat"
    /\ \E n \in PromptNames :
         /\ Lookup(n) = None
         /\ log' = <<Event("prompt_not_found", 0, 0, n, NoId, None)>>
    /\ UNCHANGED <<pc, qpc, messages, heap, responses, idx, has_tool_use, submitted>>
    /\ UNCHANGED bootVars
    /\ UNCHANGED lineVars

\* get_prompt returns messages: the text of the first one is passed to
\* process_query (lines 223-237)
PromptReturns ==
    /\ pc = "prompt"
    /\ pc' = "query"
    /\ \E q \in Queries : StartQuery(q)
    /\ line' = NoLine
    /\ args' = NoArgs
    /\ UNCHANGED bootVars

\* get_prompt returns no message: execute_prompt returns (line 223)
PromptEmpty ==
    /\ pc = "prompt"
    /\ pc' = "chat"
    /\ log' = <<>>
    /\ line' = NoLine
    /\ args' = NoArgs
    /\ UNCHANGED <<qpc, messages, heap, responses, idx, has_tool_use, submitted>>
    /\ UNCHANGED bootVars

\* get_prompt raises (line 222)
PromptRaises ==
    /\ pc = "prompt"
    /\ pc' = "raised"
    /\ UNCHANGED queryVars
    /\ UNCHANGED bootVars
    /\ UNCHANGED lineVars

\* the except clause of get_resource or execute_prompt prints the error and
\* the function returns to chat_loop (lines 196-197, 238-239)
HandlerReports ==
    /\ pc = "raised"
    /\ pc' = AfterError
    /\ log' = <<ErrorEvent(LastEvent.ev)>>
    /\ line' = NoLine
    /\ args' = NoArgs
    /\ UNCHANGED <<qpc, messages, heap, responses, idx, has_tool_use, submitted>>
    /\ UNCHANGED bootVars

\* ------------------------------------------------------- specifications
QueryIdle ==
    /\ qpc = "idle"
    /\ messages = <<>>
    /\ heap = <<>>
    /\ responses = <<>>
    /\ idx = 0
    /\ has_tool_use = FALSE
    /\ submitted = <<>>
    /\ log = <<>>

Configs ==
    {[file |-> f, hasKey |-> FALSE, n |-> 0] :
        f \in {"missing", "malformed", "nonmapping", "ok"}}
    \cup {[file |-> "ok", hasKey |-> TRUE, n |-> n] : n \in 0..MaxServers}

\* MCP_ChatBot() constructed (lines 15-23), main about to call connect_to_servers
Init ==
    /\ pc = "start"
    /\ config \in Configs
    /\ next = 0
    /\ bootResult = "none"
    /\ bootError = "none"
    /\ backend = <<>>
    /\ exit_stack = EmptyRegistry.stack
    /\ sessions = EmptyRegistry.sessions
    /\ available_tools = EmptyRegistry.tools
    /\ available_prompts = EmptyRegistry.prompts
    /\ connect_ok = <<>>
    /\ QueryIdle
    /\ LineIdle

BootNext ==
    \/ LoadConfig
    \/ ConnectNext
    \/ ReturnFromConnect
    \/ MainCheck
    \/ ReadEmpty
    \/ ReadQuit
    \/ Cleanup

QueryNext ==
    \/ ModelResponds
    \/ ModelRaises
    \/ TextSegment
    \/ ToolUseCall
    \/ ToolUseNotFound
    \/ ToolReturns
    \/ ToolRaises
    \/ EndFor

ResourceNext ==
    \/ ReadResource
    \/ ResourceNotFound
    \/ ResourceReturns
    \/ ResourceRaises

PromptNext ==
    \/ PromptNotFound
    \/ PromptReturns
    \/ PromptEmpty
    \/ PromptRaises
    \/ HandlerReports

ChatNext ==
    \/ ReadEmpty
    \/ ReadQuit
    \/ ReadQuery
    \/ ReadCommand
    \/ QueryNext
    \/ QueryReturns
    \/ ResourceNext
    \/ ReadPrompt
    \/ PromptNext
    \/ Cleanup

\* the /prompt command over every text of up to MaxRest characters
ParseNext ==
    \/ ReadPromptLine
    \/ PromptNotFound
    \/ PromptEmpty
    \/ PromptRaises
    \/ HandlerReports

Next == BootNext \/ ChatNext

\* the whole program
Spec == Init /\ [][Next]_vars

\* the program with no query typed: the bootstrap and main
BootSpec == Init /\ [][BootNext]_vars

\* the registry after connect_to_servers over the servers behs
RECURSIVE Bootstrapped(_, _)
Bootstrapped(behs, n) ==
    IF n = 0 THEN EmptyRegistry
    ELSE ConnectToServer(Bootstrapped(behs, n - 1), n, behs[n])

ToolsAndFolders(l) ==
    Beh(TRUE, "ok", Listed(l), Failed, Listed(<<"papers://folders">>))
\* the servers chat_loop is entered with: one that failed to launch (no
\* key resolves), or one serving tool a and the resource papers://folders
\* followed by one serving a prompt named a (a resolves, b does not)
ChatBackends ==
    {<<Beh(TRUE, "launch_fail", Failed, Failed, Failed)>>,
     <<ToolsAndFolders(<<"a">>), Beh(TRUE, "ok", Failed, Listed(<<"a">>), Failed)>>}

\* main has entered chat_loop (line 352) after a bootstrap over ChatBackends
ChatInit ==
    /\ pc = "chat"
    /\ \E behs \in ChatBackends :
         /\ Len(behs) <= MaxServers
         /\ config = [file |-> "ok", hasKey |-> TRUE, n |-> Len(behs)]
         /\ next = Len(behs) + 1
         /\ backend = behs
         /\ exit_stack = Bootstrapped(behs, Len(behs)).stack
         /\ sessions = Bootstrapped(behs, Len(behs)).sessions
         /\ available_tools = Bootstrapped(behs, Len(behs)).tools
         /\ available_prompts = Bootstrapped(behs, Len(behs)).prompts
         /\ connect_ok = [b \in DOMAIN behs |-> ConnectReturn(behs[b])]
    /\ bootResult = "True"
    /\ bootError = "none"
    /\ QueryIdle
    /\ LineIdle

\* the interactive loop from its start
ChatSpec == ChatInit /\ [][ChatNext]_vars

\* every call process_query awaits comes back, and the loop body runs on
QueryFair ==
    /\ WF_vars(TextSegment)
    /\ WF_vars(ToolUseCall)
    /\ WF_vars(ToolUseNotFound)
    /\ WF_vars(ToolReturns \/ ToolRaises)
    /\ WF_vars(EndFor)

LiveChatSpec == ChatSpec /\ QueryFair

\* chat_loop fed with /prompt lines only
ParseSpec == ChatInit /\ [][ParseNext]_vars

\* ------------------------------------------------------------ observers
ToolUseIdx(resp) == {i \in DOMAIN resp : resp[i].type = "tool_use"}
HasToolUse(resp) == ToolUseIdx(resp) # {}

IsResultMsg(m)   == m.ref = 0 /\ m.content[1].type = "tool_result"
IsCall(e)        == e.ev = "call_tool"
Calls            == SelectSeq(log, IsCall)
ResultMsgs       == SelectSeq(messages, IsResultMsg)
Submits(l)       == Cardinality({k \in DOMAIN l : l[k].ev = "submit"})
InQuery          == pc = "query" /\ round >= 1

\* the call_tool of request i of response r was made and its result appended
Dispatched(r, i) ==
    /\ \E k \in DOMAIN log :
         IsCall(log[k]) /\ log[k].round = r /\ log[k].idx = i
    /\ \E m \in DOMAIN messages :
         IsResultMsg(messages[m]) /\ messages[m].content[1].id = responses[r][i].id

\* request j of response r was reported as not found
NotFoundAt(r, j) ==
    \E k \in DOMAIN log :
        log[k].ev = "not_found" /\ log[k].round = r /\ log[k].idx = j

\* ------------------------------------------------------------------ C1
\* C1: once the model service returns a response without tool_use block,
\* process_query reaches DONE, and from that response on it makes no
\* further call of the model service.
C1_TerminatesOnPlainResponse ==
    /\ (InQuery /\ qpc = "FOR" /\ ~HasToolUse(cur)) ~> (qpc = "DONE")
    /\ [][(InQuery /\ qpc \in {"FOR", "DONE"} /\ ~HasToolUse(cur) /\ pc' = "query")
            => Submits(log') = Submits(log)]_vars

\* a query that ended after a round with tool calls and a plain second response
C1_Witness ==
    /\ qpc = "DONE" /\ round = 2
    /\ HasToolUse(responses[1]) /\ ~HasToolUse(responses[2])

\* ------------------------------------------------------------------ C2
\* C2 as stated: when process_query returns, every tool_use block of every
\* response of the query has been dispatched (call_tool made, result appended).
C2_AllDispatchedAtReturn ==
    qpc = "DONE" =>
        \A r \in 1..round : \A i \in ToolUseIdx(responses[r]) : Dispatched(r, i)

\* C2 amended: when process_query returns, the last response held no
\* tool_use block, and every tool_use block of every response has been
\* dispatched, except a block whose name did not resolve and the blocks
\* after it in the same response.
C2_DispatchedUnlessNotFound ==
    qpc = "DONE" =>
        /\ ~HasToolUse(cur)
        /\ \A r \in 1..round : \A i \in ToolUseIdx(responses[r]) :
             \/ Dispatched(r, i)
             \/ \E j \in 1..i : NotFoundAt(r, j)

\* a query that returned after a round in which a later request was skipped
C2_Witness ==
    /\ qpc = "DONE"
    /\ \E r \in 1..round : \E j \in ToolUseIdx(responses[r]) :
         /\ NotFoundAt(r, j)
         /\ \E i \in ToolUseIdx(responses[r]) : i > j

\* ------------------------------------------------------------------ C3
\* C3: the call_tool calls of a response are made one at a time in the
\* order of its tool_use blocks, none skipped, each with the name and id of
\* its block; a call is made only when the result of the one before is in
\* the transcript, and the k-th tool result carries the id of the k-th call.
C3_InOrderDispatch ==
    InQuery =>
        /\ \A k \in DOMAIN Calls :
             LET e == Calls[k] IN
             /\ e.round \in 1..round /\ e.idx \in ToolUseIdx(responses[e.round])
             /\ e.name = responses[e.round][e.idx].name
             /\ e.id = responses[e.round][e.idx].id
             /\ \A j \in ToolUseIdx(responses[e.round]) :
                  j < e.idx =>
                    \E h \in 1..(k - 1) :
                        Calls[h].round = e.round /\ Calls[h].idx = j
             /\ k > 1 =>
                  \/ Calls[k - 1].round < e.round
                  \/ Calls[k - 1].round = e.round /\ Calls[k - 1].idx < e.idx
        /\ Len(ResultMsgs) \in {Len(Calls), Len(Calls) - 1}
        /\ Len(ResultMsgs) < Len(Calls) => qpc \in {"CALLING", "RAISED"}
        /\ \A k \in DOMAIN ResultMsgs :
             ResultMsgs[k].content[1].id = Calls[k].id

\* both requests of a two-request response have been called and answered
C3_Witness ==
    /\ InQuery /\ qpc = "FOR" /\ idx = 3
    /\ Len(Calls) >= 2 /\ Len(ResultMsgs) = Len(Calls)
    /\ Calls[Len(Calls)].round = round /\ Calls[Len(Calls) - 1].round = round

\* ------------------------------------------------------------------ C4
\* the places (message, block) of the blocks of type t in transcript T
BlocksOf(T, t) ==
    UNION {{<<m, j>> : j \in {i \in DOMAIN T[m].content : T[m].content[i].type = t}}
              : m \in DOMAIN T}

\* C4 as stated: in every transcript passed to the model service, every
\* tool_use block of an assistant message is answered by exactly one
\* tool_result block with its id, and every tool_result block carries the
\* id of a tool_use block of an earlier assistant message.
C4_RequestResultPairing ==
    /\ \A u \in BlocksOf(submitted, "tool_use") :
         Cardinality({v \in BlocksOf(submitted, "tool_result") :
             submitted[v[1]].content[v[2]].id = submitted[u[1]].content[u[2]].id}) = 1
    /\ \A v \in BlocksOf(submitted, "tool_result") :
         \E u \in BlocksOf(submitted, "tool_use") :
             /\ u[1] < v[1]
             /\ submitted[u[1]].role = "assistant"
             /\ submitted[u[1]].content[u[2]].id = submitted[v[1]].content[v[2]].id

\* ------------------------------------------------------------------ C5
AssistantAt(r) == {m \in DOMAIN messages : messages[m].ref = r}

\* C5 as stated: a response with a tool_use block gets exactly one assistant
\* message in the transcript, and that message comes before every tool
\* result of the response.
C5_OneAssistantMessagePerResponse ==
    InQuery =>
        \A r \in 1..round :
            /\ Cardinality(AssistantAt(r)) <= 1
            /\ \A i \in ToolUseIdx(responses[r]) :
                 Dispatched(r, i) => Cardinality(AssistantAt(r)) = 1
            /\ \A m \in DOMAIN messages :
                 (/\ IsResultMsg(messages[m])
                  /\ messages[m].content[1].id[1] = r)
                 => \A a \in AssistantAt(r) : a < m

\* ------------------------------------------------------------------ C6
\* C6: after a tool_use block whose name does not resolve, not-found is
\* reported, no later block of that response is called, the results of the
\* earlier calls stay in the transcript, and the next thing process_query
\* does is to call the model service again: it is still running.
C6_NotFoundAbortsBatchOnly ==
    InQuery =>
        \A k \in DOMAIN log :
            log[k].ev = "not_found" =>
                /\ Lookup(log[k].name) = None
                /\ \A h \in DOMAIN log :
                     (IsCall(log[h]) /\ log[h].round = log[k].round)
                     => (h < k /\ log[h].idx < log[k].idx /\ Dispatched(log[h].round, log[h].idx))
                /\ k = Len(log) => (pc = "query" /\ qpc = "AWAITING_MODEL")
                /\ k < Len(log) =>
                     /\ log[k + 1].ev = "submit"
                     /\ log[k + 1].round = log[k].round + 1
                /\ (k < Len(log) /\ round = log[k].round + 1) =>
                     \A h \in 1..k :
                         IsCall(log[h]) =>
                            \E v \in BlocksOf(submitted, "tool_result") :
                                submitted[v[1]].content[v[2]].id = log[h].id

\* a response whose first request was answered and whose second was not
\* found, followed by the next call of the model service
C6_Witness ==
    /\ InQuery /\ round = 2
    /\ \E k \in DOMAIN log :
         /\ log[k].ev = "not_found" /\ log[k].round = 1 /\ log[k].idx = 2
         /\ k > 1 /\ IsCall(log[k - 1]) /\ log[k - 1].round = 1

\* ----------------------------------------------------- bootstrap observers
Attempted == 1..Len(backend)
ConnectedOK(b) == backend[b].entry /\ backend[b].conn = "ok"
\* the keys server b registered: the names and URIs its listings returned
KeysOf(b) ==
    Range(backend[b].tools.items) \cup Range(backend[b].prompts.items)
        \cup Range(backend[b].resources.items)
Registrants(k) == {b \in Attempted : ConnectedOK(b) /\ k \in KeysOf(b)}
AllKeys == UNION {KeysOf(b) : b \in Attempted}
Latest(S) == CHOOSE b \in S : \A c \in S : c <= b
Returned == pc \notin {"start", "connecting"}

\* ------------------------------------------------------------------ C7
\* C7: a key registered by two or more servers that connected maps to the
\* session of the one latest in configuration order, and a bootstrap that
\* went through all entries with such a key returns True with no error.
C7_LastWriteWins ==
    \A k \in AllKeys :
        Cardinality(Registrants(k)) >= 2 =>
            /\ k \in DOMAIN sessions
            /\ sessions[k] = Latest(Registrants(k))
            /\ (Returned /\ \A b \in Attempted : backend[b].entry)
                 => (bootResult = "True" /\ bootError = "none")

\* chat_loop entered after two servers both listed a tool named a
C7_Witness ==
    /\ pc = "chat" /\ Len(backend) = 2
    /\ "a" \in Range(backend[1].tools.items)
    /\ "a" \in Range(backend[2].tools.items)

\* ------------------------------------------------------------------ C8
ZeroBackends == config.file = "ok" /\ ServerCount(config) = 0

FailedRegisterNothing ==
    /\ \A k \in DOMAIN sessions : sessions[k] \in Attempted /\ ConnectedOK(sessions[k])
    /\ \A d \in Range(available_tools) :
         \E b \in Attempted : ConnectedOK(b) /\ d.name \in Range(backend[b].tools.items)
    /\ \A d \in Range(available_prompts) :
         \E b \in Attempted : ConnectedOK(b) /\ d.name \in Range(backend[b].prompts.items)

C10_NoConfigNoChat ==
    config.file \in {"missing", "malformed"} =>
        /\ Returned => bootResult = "False"
        /\ pc \notin {"chat", "query", "connecting"}
        /\ exit_stack = <<>> /\ backend = <<>>
        /\ QueryIdle

\* the program has stopped on a missing file
C10_Witness ==
    /\ pc = "stopped" /\ config.file = "missing"
    /\ bootError = "FileNotFoundError"

\* ----------------------------------------------------------------- C11
ChatPhase == {"chat", "query", "resource", "prompt", "raised"}
\* a call awaited while a line is processed has raised
Raised == pc = "raised" \/ (pc = "query" /\ qpc = "RAISED")

\* C11: when the model call, a tool call, get_prompt or read_resource has
\* raised, the next step prints the error, drops what the line had built
\* up and is back at the top of the loop to read a line; chat_loop is left
\* only from there, on the line quit.
C11_ErrorsKeepSession ==
    /\ [][Raised =>
            /\ pc' = "chat"
            /\ log' = <<ErrorEvent(LastEvent.ev)>>
            /\ qpc' = "idle" /\ messages' = <<>> /\ LineIdle']_vars
    /\ [][(pc \in ChatPhase /\ pc' \notin ChatPhase) =>
            (pc = "chat" /\ log' = << LineEvent("quit") >>)]_vars

\* chat_loop reads the next line after get_prompt raised
C11_Witness ==
    /\ pc = "chat" /\ log = <<ErrorEvent("get_prompt")>>

\* ----------------------------------------------------------------- C12
SessionOpen(b) == <<"session", b>> \in Range(exit_stack)

\* C12: for a server that launched and shook hands, whichever of the three
\* listings failed, every name and URI of the listings that succeeded is
\* registered (tools and prompts also in their lists), the session stays in
\* the exit stack until cleanup, and connect_to_server returned True.
C12_ListingsIndependent ==
    \A b \in Attempted :
        ConnectedOK(b) =>
            /\ connect_ok[b]
            /\ pc # "stopped" => SessionOpen(b)
            /\ KeysOf(b) \subseteq DOMAIN sessions
            /\ \A n \in Range(backend[b].tools.items) :
                  Descriptor(n) \in Range(available_tools)
            /\ \A n \in Range(backend[b].prompts.items) :
                  Descriptor(n) \in Range(available_prompts)

\* chat_loop entered with a server whose tool listing failed and whose
\* prompt and resource listings returned items
C12_Witness ==
    /\ pc = "chat" /\ Len(backend) >= 1
    /\ ConnectedOK(1)
    /\ ~backend[1].tools.ok
    /\ backend[1].prompts = Listed(<<"p">>)
    /\ backend[1].resources = Listed(<<"papers://folders">>)
    /\ sessions["p"] = 1 /\ sessions["papers://folders"] = 1

\* ----------------------------------------------------------------- C13
Connected == {b \in Attempted : ConnectedOK(b)}
PairwiseDistinct ==
    \A b, c \in Connected : b # c => KeysOf(b) \cap KeysOf(c) = {}

\* C13: when the names and URIs listed by the servers that connected are
\* pairwise distinct, every one of them is a key of sessions and maps to
\* the session of the server that listed it.
C13_DistinctKeysResolveToOwner ==
    PairwiseDistinct =>
        \A b \in Connected : \A k \in KeysOf(b) :
            k \in DOMAIN sessions /\ sessions[k] = b

\* chat_loop entered after one server listed tools a and b and a resource
\* and the other listed prompt p
C13_Witness ==
    /\ pc = "chat" /\ Len(backend) = 2 /\ PairwiseDistinct
    /\ ConnectedOK(1) /\ ConnectedOK(2)
    /\ backend[1].tools = Listed(<<"a", "b">>)
    /\ backend[1].resources = Listed(<<"papers://folders">>)
    /\ backend[2].prompts = Listed(<<"p">>)

\* ----------------------------------------------------------------- C14
IsPrefix(s, t) == Len(s) <= Len(t) /\ SubSeq(t, 1, Len(s)) = s

\* every key of sessions maps to a session that is in the exit stack
KeysOpen == \A k \in DOMAIN sessions : SessionOpen(sessions[k])

\* C14: until cleanup has run every key of sessions maps to a session held
\* open by the exit stack; before cleanup the exit stack only grows, and no
\* step removes a key from sessions.
C14_RouterInvariant ==
    /\ [](pc # "stopped" => KeysOpen)
    /\ [][/\ pc # "cleanup" => IsPrefix(exit_stack, exit_stack')
          /\ DOMAIN sessions \subseteq DOMAIN sessions']_vars

\* main about to run cleanup after two servers connected and registered keys
C14_Witness ==
    /\ pc = "cleanup" /\ Len(backend) = 2
    /\ ConnectedOK(1) /\ ConnectedOK(2)
    /\ 1 \in Range(sessions) /\ 2 \in Range(sessions)
    /\ KeysOpen

\* ----------------------------------------------------------------- C15
\* C15: no step taken while chat_loop runs changes sessions,
\* available_tools or available_prompts.
C15_RegistryReadOnly ==
    [][(pc \in ChatPhase) =>
         (UNCHANGED <<sessions, available_tools, available_prompts>>)]_vars

\* read_resource awaited for a URI that only the fallback resolved, with
\* sessions still holding the two keys of the bootstrap
C15_Witness ==
    /\ pc = "resource" /\ LastEvent.name = "papers://ai"
    /\ DOMAIN sessions = {"a", "papers://folders"}

\* ----------------------------------------------------------------- C16
\* C16: process_query starts with the transcript holding exactly the user
\* message of the query it was called with; while it runs, messages is
\* only appended to, the first transcript submitted is that user message
\* alone, and every later one has the one submitted before as a prefix.
C16_TranscriptAppendOnly ==
    /\ [][(pc # "query" /\ pc' = "query") =>
            /\ log'[1].ev = "query"
            /\ messages' = <<UserMsg(log'[1].name)>>
            /\ submitted' = <<>>]_vars
    /\ [][(pc = "query" /\ pc' = "query") =>
            /\ IsPrefix(messages, messages')
            /\ submitted' # submitted =>
                 IF submitted = <<>>
                 THEN submitted' = <<Deref(UserMsg(log[1].name), heap)>>
                 ELSE IsPrefix(submitted, submitted')]_vars

\* the second submission of a query, after a tool call of the first round
C16_Witness ==
    /\ pc = "query" /\ round = 2
    /\ Len(submitted) >= 3
    /\ submitted[1] = Deref(UserMsg("q"), heap)

\* ----------------------------------------------------------------- C17
HasPapersScheme(str) == str \in {"papers://folders", "papers://ai"}
PapersKeys == {k \in DOMAIN sessions : HasPapersScheme(k)}
Reads == {k \in DOMAIN log : log[k].ev = "read_resource"}

\* C17: read_resource goes to the session registered under the URI, or for
\* an unregistered papers:// URI to a session registered under a key with
\* that prefix; not-found is printed only when neither exists and then no
\* read is made; call_tool and get_prompt go to the session registered
\* under exactly the name, and their not-found is printed exactly when the
\* name is no key.
C17_ResourceRouting ==
    \A k \in DOMAIN log :
        LET e == log[k] IN
        /\ e.ev = "read_resource" =>
              IF e.name \in DOMAIN sessions
              THEN e.session = sessions[e.name]
              ELSE /\ HasPapersScheme(e.name)
                   /\ \E key \in PapersKeys : e.session = sessions[key]
        /\ e.ev = "resource_not_found" =>
              /\ e.name \notin DOMAIN sessions
              /\ ~HasPapersScheme(e.name) \/ PapersKeys = {}
              /\ Reads = {} /\ pc = "chat"
        /\ e.ev \in {"call_tool", "get_prompt"} =>
              e.name \in DOMAIN sessions /\ e.session = sessions[e.name]
        /\ e.ev \in {"not_found", "prompt_not_found"} =>
              e.name \notin DOMAIN sessions

\* read_resource awaited on the session of papers://folders for the
\* unregistered papers://ai
C17_Witness ==
    /\ pc = "resource" /\ LastEvent.ev = "read_resource"
    /\ LastEvent.name = "papers://ai"
    /\ "papers://ai" \notin DOMAIN sessions
    /\ LastEvent.session = sessions["papers://folders"]

\* ----------------------------------------------------------------- C18
\* the tokens of a text, by position: where one starts and where it ends
TokStarts(str) ==
    {i \in DOMAIN str : str[i] # " " /\ (i = 1 \/ str[i - 1] = " ")}
TokEnd(str, i) ==
    CHOOSE j \in i..Len(str) :
        /\ \A m \in i..j : str[m] # " "
        /\ j = Len(str) \/ str[j + 1] = " "
EqPos(str, i) ==
    CHOOSE m \in i..TokEnd(str, i) :
        str[m] = "=" /\ \A n \in i..(m - 1) : str[n] # "="
EqToks(str) ==
    {i \in TokStarts(str) : \E m \in i..TokEnd(str, i) : str[m] = "="}
KeyOf(str, i) == SubSeq(str, i, EqPos(str, i) - 1)
ValOf(str, i) == SubSeq(str, EqPos(str, i) + 1, TokEnd(str, i))

\* C18: the dict passed to execute_prompt has as keys the texts before the
\* first '=' of the tokens that hold one, each mapped to the text after
\* that '=' in the last such token of the line; tokens without '=' add
\* nothing.
C18_ArgsParsed ==
    pc = "prompt" =>
        LET str == line.rest IN
        /\ DOMAIN args = {KeyOf(str, i) : i \in EqToks(str)}
        /\ \A i \in EqToks(str) :
             (\A j \in EqToks(str) : j > i => KeyOf(str, j) # KeyOf(str, i))
                 => args[KeyOf(str, i)] = ValOf(str, i)

\* get_prompt awaited for '/prompt a a=1 a=a', with a mapped to a
C18_Witness ==
    /\ pc = "prompt"
    /\ line.rest = <<"a", "=", "1", " ", "a", "=", "a">>
    /\ DOMAIN args = {<<"a">>} /\ args[<<"a">>] = <<"a">>

\* ----------------------------------------------------------------- C19
\* C19: available_tools holds at most one descriptor per tool name, and
\* available_prompts at most one per prompt name.
C19_UniqueNames ==
    /\ \A i, j \in DOMAIN available_tools :
         i # j => available_tools[i].name # available_tools[j].name
    /\ \A i, j \in DOMAIN available_prompts :
         i # j => available_prompts[i].name # available_prompts[j].name

\* ----------------------------------------------------------------- C20
\* C20: call_tool for a name is made only on the session of a server whose
\* tool listing held that name.
C20_ToolCallsOnToolServers ==
    \A k \in DOMAIN log :
        IsCall(log[k]) =>
            log[k].name \in Range(backend[log[k].session].tools.items)

====
